---------------------------- MODULE Spec2Model ----------------------------
(***************************************************************************)
(* Model of csvforwkt/crs.py: the coordinate reference systems of a        *)
(* celestial body (BodyCrs), the conversion of a projection record         *)
(* (Conversion) and the projected coordinate reference systems             *)
(* (ProjectionBody).                                                        *)
(*                                                                         *)
(* Python values are tagged records (Str, Int, None) so that str(), the    *)
(* "is None" tests and numpy's conversion of a mixed list are modelled by  *)
(* what they do.  A text is a sequence of pieces; the str the code returns *)
(* is the concatenation Flat(text) of the pieces.  A piece remembers the   *)
(* placeholder it was substituted for, so that a field of a rendered text  *)
(* can be read back.                                                        *)
(***************************************************************************)
EXTENDS Integers, Sequences, FiniteSets, TLC

VARIABLES
    crs,                        \* the BodyCrs objects constructed so far
    projs,                      \* the ProjectionBody objects held, by Key
    gens,                       \* the generators returned by iter_projection
    ret,                        \* the outcome of the last call
    PROJECTION_DATA,            \* class attribute ProjectionBody.PROJECTION_DATA
    METHOD_AND_PARAM_MAPPING    \* class attribute ProjectionBody.METHOD_AND_PARAM_MAPPING

vars == <<crs, projs, gens, ret, PROJECTION_DATA, METHOD_AND_PARAM_MAPPING>>

---------------------------------------------------------------------------
(* Bounds of the model.                                                    *)

MaxCrs == 2
MaxProj == 2
MaxGen == 2

---------------------------------------------------------------------------
(* Python values.                                                          *)

Str(s) == [k |-> "str", s |-> s, n |-> 0]
Int_(i) == [k |-> "int", s |-> "", n |-> i]
None == [k |-> "none", s |-> "", n |-> 0]

\* str(v), as string.Template.substitute and numpy apply it.
PyStr(v) ==
    CASE v.k = "str" -> v.s
      [] v.k = "int" -> ToString(v.n)
      [] OTHER -> "None"

\* int(v) of an int or of its decimal text (only ints occur at slot 0).
PyInt(v) == v.n

\* A character sequence as a str.
RECURSIVE Text(_)
Text(cs) == IF cs = <<>> THEN "" ELSE Head(cs) \o Text(Tail(cs))

UpperChar(c) ==
    CASE c = "a" -> "A" [] c = "b" -> "B" [] c = "c" -> "C" [] c = "d" -> "D"
      [] c = "e" -> "E" [] c = "f" -> "F" [] c = "g" -> "G" [] c = "h" -> "H"
      [] c = "i" -> "I" [] c = "j" -> "J" [] c = "k" -> "K" [] c = "l" -> "L"
      [] c = "m" -> "M" [] c = "n" -> "N" [] c = "o" -> "O" [] c = "p" -> "P"
      [] c = "q" -> "Q" [] c = "r" -> "R" [] c = "s" -> "S" [] c = "t" -> "T"
      [] c = "u" -> "U" [] c = "v" -> "V" [] c = "w" -> "W" [] c = "x" -> "X"
      [] c = "y" -> "Y" [] c = "z" -> "Z"
      [] OTHER -> c

\* str.upper() of a name, kept as its characters.
Upper(cs) == [i \in DOMAIN cs |-> UpperChar(cs[i])]

---------------------------------------------------------------------------
(* Texts and string.Template.                                              *)

Lit(s) == [var |-> "", lit |-> s]
Var(k) == [var |-> k, lit |-> ""]

\* The value substituted for a placeholder: a str, or a text produced by a
\* nested call, or texts joined by a separator.
Plain(s) == [text |-> s, parts |-> <<>>, sep |-> ""]
Arg(v) == Plain(PyStr(v))
Nested(t) == [text |-> "", parts |-> <<t>>, sep |-> ""]
Joined(sep, texts) == [text |-> "", parts |-> texts, sep |-> sep]

Piece(key, a) == [key |-> key, text |-> a.text, parts |-> a.parts, sep |-> a.sep]

\* The str a text stands for: its pieces in order, a piece with parts being
\* its parts joined by its separator.
RECURSIVE Flat(_)
RECURSIVE FlatJoin(_, _)
Flat(t) ==
    IF t = <<>> THEN ""
    ELSE (IF Head(t).parts = <<>> THEN Head(t).text
          ELSE FlatJoin(Head(t).sep, Head(t).parts)) \o Flat(Tail(t))
FlatJoin(sep, texts) ==
    IF texts = <<>> THEN ""
    ELSE IF Len(texts) = 1 THEN Flat(texts[1])
    ELSE Flat(texts[1]) \o sep \o FlatJoin(sep, Tail(texts))

\* Template(tpl).substitute(**kw): KeyError when a placeholder has no value.
Substitute(tpl, kw) ==
    IF \E i \in DOMAIN tpl : tpl[i].var # "" /\ tpl[i].var \notin DOMAIN kw
    THEN [status |-> "KeyError", val |-> <<>>]
    ELSE [status |-> "ok",
          val |-> [i \in DOMAIN tpl |->
                     IF tpl[i].var = ""
                     THEN Piece("", Plain(tpl[i].lit))
                     ELSE Piece(tpl[i].var, kw[tpl[i].var])]]

\* The texts substituted for placeholder key in a rendered text.
Field(t, key) == {t[i].text : i \in {j \in DOMAIN t : t[j].key = key}}

\* What was substituted for the placeholder key of a text by a nested call:
\* the texts nested there.
Part(t, key) == t[CHOOSE i \in DOMAIN t : t[i].key = key].parts

\* The keys a text was substituted with.
Keys(t) == {t[i].key : i \in DOMAIN t} \ {""}

---------------------------------------------------------------------------
(* The constant tables of ProjectionBody.                                  *)

\* One slot pair of a projection record: a parameter name and its value.
Param(name, value) == <<Str(name), Int_(value)>>

RECURSIVE Slots(_)
Slots(pairs) == IF pairs = <<>> THEN <<>> ELSE Head(pairs) \o Slots(Tail(pairs))

\* A projection record as the code writes it: offset, name, method and six
\* (name, value) slot pairs, the unused ones None.
Record(offset, name, method, pairs) ==
    <<Int_(offset), Str(name), Str(method)>> \o Slots(pairs)
        \o [i \in 1..(12 - 2 * Len(pairs)) |-> None]

PROJECTION_DATA_0 == <<
    Record(10, "Equirectangular, clon = 0", "Equidistant Cylindrical",
           <<Param("Latitude of 1st standard parallel", 0),
             Param("Longitude of natural origin", 0),
             Param("False easting", 0), Param("False northing", 0)>>),
    Record(15, "Equirectangular, clon = 180", "Equidistant Cylindrical",
           <<Param("Latitude of 1st standard parallel", 0),
             Param("Longitude of natural origin", 180),
             Param("False easting", 0), Param("False northing", 0)>>),
    Record(20, "Sinusoidal, clon = 0", "Sinusoidal",
           <<Param("Longitude of natural origin", 0),
             Param("False easting", 0), Param("False northing", 0)>>),
    Record(25, "Sinusoidal, clon = 180", "Sinusoidal",
           <<Param("Longitude of natural origin", 180),
             Param("False easting", 0), Param("False northing", 0)>>),
    Record(30, "North Polar", "Polar Stereographic (variant A)",
           <<Param("Latitude of natural origin", 90),
             Param("Longitude of natural origin", 0),
             Param("Scale factor at natural origin", 1),
             Param("False easting", 0), Param("False northing", 0)>>),
    Record(35, "South Polar", "Polar Stereographic (variant A)",
           <<Param("Latitude of natural origin", -90),
             Param("Longitude of natural origin", 0),
             Param("Scale factor at natural origin", 1),
             Param("False easting", 0), Param("False northing", 0)>>),
    Record(40, "Mollweide, clon = 0", "Mollweide",
           <<Param("Longitude of natural origin", 0),
             Param("False easting", 0), Param("False northing", 0)>>),
    Record(45, "Mollweide, clon = 180", "Mollweide",
           <<Param("Longitude of natural origin", 180),
             Param("False easting", 0), Param("False northing", 0)>>),
    Record(50, "Robinson, clon = 0", "Robinson",
           <<Param("Longitude of natural origin", 0),
             Param("False easting", 0), Param("False northing", 0)>>),
    Record(55, "Robinson, clon = 180", "Robinson",
           <<Param("Longitude of natural origin", 180),
             Param("False easting", 0), Param("False northing", 0)>>),
    Record(60, "Tranverse Mercator", "Transverse Mercator",
           <<Param("Latitude of natural origin", 0),
             Param("Longitude of natural origin", 0),
             Param("Scale factor at natural origin", 1),
             Param("False easting", 0), Param("False northing", 0)>>),
    Record(65, "Orthographic, clon = 0", "Orthographic",
           <<Param("Latitude of natural origin", 0),
             Param("Longitude of natural origin", 0),
             Param("False easting", 0), Param("False northing", 0)>>),
    Record(70, "Orthographic, clon = 180", "Orthographic",
           <<Param("Latitude of natural origin", 0),
             Param("Longitude of natural origin", 180),
             Param("False easting", 0), Param("False northing", 0)>>),
    Record(75, "Lambert Conic Conformal", "Lambert Conic Conformal (2SP)",
           <<Param("Latitude of false origin", 40),
             Param("Longitude of false origin", 0),
             Param("Latitude of 1st standard parallel", 20),
             Param("Latitude of 2nd standard parallel", 60),
             Param("Easting at false origin", 0),
             Param("Northing at false origin", 0)>>),
    Record(80, "Lambert Azimuthal Equal Area", "Lambert Azimuthal Equal Area",
           <<Param("Latitude of natural origin", 40),
             Param("Longitude of natural origin", 0),
             Param("False easting", 0), Param("False northing", 0)>>),
    Record(85, "Albers Equal Area", "Albers Equal Area",
           <<Param("Latitude of false origin", 40),
             Param("Longitude of false origin", 0),
             Param("Latitude of 1st standard parallel", 20),
             Param("Latitude of 2nd standard parallel", 60),
             Param("Easting at false origin", 0),
             Param("Northing at false origin", 0)>>),
    Record(90, "Mercator", "Mercator (Spherical)",
           <<Param("Latitude of natural origin", 0),
             Param("Longitude of natural origin", 0),
             Param("False easting", 0), Param("False northing", 0)>>) >>

SCALEUNIT == "SCALEUNIT[\"unity\",1,ID[\"EPSG\", 9201]]"
LENGTHUNIT == "LENGTHUNIT[\"metre\",1,ID[\"EPSG\", 9001]]"
ANGLEUNIT == "ANGLEUNIT[\"degree\",0.0174532925199433,ID[\"EPSG\", 9122]]"

Epsg(code) == <<Str("EPSG"), Int_(code)>>
\* A parameter entry written without its unit clause.
EpsgUnit_no_unit(code, unit) == <<Str("EPSG"), Int_(code)>>

EpsgUnit(code, unit) == <<Str("EPSG"), Int_(code), Str(unit)>>
Proj(code) == <<Str("PROJ"), Str(code)>>

\* A dict literal: the keys of entries with their values.
Dict(entries) ==
    [key \in {entries[i][1] : i \in DOMAIN entries} |->
        entries[CHOOSE i \in DOMAIN entries :
                    /\ entries[i][1] = key
                    /\ \A j \in DOMAIN entries : entries[j][1] = key => j <= i][2]]

METHOD_AND_PARAM_MAPPING_0 == Dict(<<
    <<"Mercator (Spherical)", Epsg(1026)>>,
    <<"Lambert Azimuthal Equal Area (Spherical)", Epsg(1027)>>,
    <<"Equidistant Cylindrical", Epsg(1028)>>,
    <<"Equidistant Cylindrical (Spherical)", Epsg(1029)>>,
    <<"Scale factor at natural origin", EpsgUnit(8805, SCALEUNIT)>>,
    <<"False easting", EpsgUnit(8806, LENGTHUNIT)>>,
    <<"False northing", EpsgUnit(8807, LENGTHUNIT)>>,
    <<"Latitude of natural origin", EpsgUnit(8801, ANGLEUNIT)>>,
    <<"Longitude of natural origin", EpsgUnit(8802, ANGLEUNIT)>>,
    <<"Latitude of false origin", EpsgUnit(8821, ANGLEUNIT)>>,
    <<"Longitude of false origin", EpsgUnit(8822, ANGLEUNIT)>>,
    <<"Latitude of 1st standard parallel", EpsgUnit(8823, ANGLEUNIT)>>,
    <<"Latitude of 2nd standard parallel", EpsgUnit(8824, ANGLEUNIT)>>,
    <<"Easting at false origin", EpsgUnit(8826, LENGTHUNIT)>>,
    <<"Northing at false origin", EpsgUnit(8827, LENGTHUNIT)>>,
    <<"Sinusoidal", Proj("\"SINUSOIDAL\"")>>,
    <<"Robinson", Proj("\"ROBINSON\"")>>,
    <<"Mollweide", Proj("\"MOLLWEIDE\"")>>,
    <<"Transverse Mercator", Epsg(9807)>>,
    <<"Lambert Conic Conformal (2SP)", Epsg(9802)>>,
    <<"Polar Stereographic (variant A)", Epsg(9810)>>,
    <<"Lambert Azimuthal Equal Area", Epsg(9820)>>,
    <<"Albers Equal Area", Epsg(9822)>>,
    <<"Orthographic", Epsg(9840)>>,
    <<"Popular Visualisation Pseudo Mercator", Epsg(1024)>> >>)

---------------------------------------------------------------------------
(* CrsType, ReferenceShape and BodyCrsCode.                                *)

OCENTRIC == "Ocentric"
OGRAPHIC == "Ographic"
CrsType == {OCENTRIC, OGRAPHIC}

SPHERE == "Sphere"
ELLIPSE == "Ellipse"
TRIAXIAL == "Triaxial"

SPHERE_OCENTRIC == [shape |-> "Sphere", reference |-> OCENTRIC, code |-> 0]
ELLIPSE_OGRAPHIC == [shape |-> "Ellipse", reference |-> OGRAPHIC, code |-> 1]
\* ELLIPSE_OCENTRIC with the code of ELLIPSE_OGRAPHIC.
ELLIPSE_OCENTRIC_dup == [shape |-> "Ellipse", reference |-> OCENTRIC, code |-> 1]
ELLIPSE_OCENTRIC == [shape |-> "Ellipse", reference |-> OCENTRIC, code |-> 2]
TRIAXIAL_OGRAPHIC == [shape |-> "Triaxial", reference |-> OGRAPHIC, code |-> 3]
\* TRIAXIAL_OCENTRIC numbered 10.
TRIAXIAL_OCENTRIC_code_10 == [shape |-> "Triaxial", reference |-> OCENTRIC, code |-> 10]
TRIAXIAL_OCENTRIC == [shape |-> "Triaxial", reference |-> OCENTRIC, code |-> 4]

\* get_code without the factor 100.
get_code_sum(self, naif_code) == naif_code + self.code

\* BodyCrsCode.get_code
get_code(self, naif_code) == naif_code * 100 + self.code

---------------------------------------------------------------------------
(* The collaborators of crs.py that live in body.py and datum.py.          *)

VERSION == Str("<version>")
SOURCE_IAU == "<source-iau>"

\* Datum.wkt(): the datum's own WKT fragment.
DatumWkt(datum) == "DATUM[\"" \o Text(datum.name) \o "\", <" \o datum.body.shape \o ">]"

\* IBody.create and Datum.create, as far as crs.py reads their result.
MakeDatum(name, shape, warning) ==
    [name |-> name, body |-> [name |-> name, shape |-> shape, warning |-> warning]]

---------------------------------------------------------------------------
(* BodyCrs.                                                                *)

AXIS_TAIL ==
    ",\n\t        ORDER[2],\n\t        ANGLEUNIT[\"degree\", 0.0174532925199433]],\n\tID[\"IAU\", "

ELLIPSOIDAL_CS ==
    ",\n\tCS[ellipsoidal, 2],\n\t    AXIS[\"geodetic latitude (Lat)\", north,\n\t        ORDER[1],\n\t        ANGLEUNIT[\"degree\", 0.0174532925199433]],\n\t    AXIS[\"geodetic longitude (Lon)\", "

SPHERICAL_CS ==
    ",\n\tCS[spherical, 2],\n\t    AXIS[\"planetocentric latitude (U)\", north,\n\t        ORDER[1],\n\t        ANGLEUNIT[\"degree\", 0.0174532925199433]],\n\t    AXIS[\"planetocentric longitude (V)\", "

BODY_TAIL ==
    <<Var("number"), Lit(", "), Var("version"), Lit("],\n\tREMARK[\""),
      Var("remark"), Lit("\"]]")>>

BodyCrs_TEMPLATE_OGRAPHIC ==
    <<Lit("GEOGCRS[\""), Var("name"), Lit(" ("), Var("version"),
      Lit(") / Ographic\",\n    "), Var("datum"), Lit(ELLIPSOIDAL_CS),
      Var("direction"), Lit(AXIS_TAIL)>> \o BODY_TAIL

BodyCrs_TEMPLATE_OCENTRIC ==
    <<Lit("GEODCRS[\""), Var("name"), Lit(" ("), Var("version"),
      Lit(") / Ocentric\",\n    "), Var("datum"), Lit(SPHERICAL_CS),
      Lit("east"), Lit(AXIS_TAIL)>> \o BODY_TAIL

BodyCrs_TEMPLATE_SPHERE ==
    <<Lit("GEOGCRS[\""), Var("name"), Lit(" ("), Var("version"),
      Lit(") - Sphere \",\n    "), Var("datum"), Lit(ELLIPSOIDAL_CS),
      Lit("east"), Lit(AXIS_TAIL)>> \o BODY_TAIL

SUN == <<"S", "U", "N">>
EARTH == <<"E", "A", "R", "T", "H">>
MOON == <<"M", "O", "O", "N">>

\* _create_direction with the rotation tested before the frame and the
\* exceptions.
create_direction_rotation_first(name, rotation, crs_type, number_body) ==
    IF rotation = "Direct" THEN Str("west")
    ELSE IF number_body >= 90000 \/ Upper(name) \in {SUN, EARTH, MOON}
    THEN Str("east")
    ELSE IF crs_type = OCENTRIC THEN Str("east")
    ELSE IF rotation = "Retrograde" THEN Str("east")
    ELSE None

\* _create_direction without the rule for the ocentric frame.
create_direction_no_ocentric_rule(name, rotation, crs_type, number_body) ==
    IF number_body >= 90000 \/ Upper(name) \in {SUN, EARTH, MOON}
    THEN Str("east")
    ELSE IF rotation = "Direct" THEN Str("west")
    ELSE IF rotation = "Retrograde" THEN Str("east")
    ELSE None

\* BodyCrs._create_direction
_create_direction(name, rotation, crs_type, number_body) ==
    IF number_body >= 90000 \/ Upper(name) \in {SUN, EARTH, MOON}
    THEN Str("east")
    ELSE IF crs_type = OCENTRIC THEN Str("east")
    ELSE IF rotation = "Direct" THEN Str("west")
    ELSE IF rotation = "Retrograde" THEN Str("east")
    ELSE None

Raise(error) == [status |-> error, template |-> <<>>, number |-> 0]
Return2(template, number) == [status |-> "ok", template |-> template, number |-> number]

\* _get_template_and_number without the raise for a sphere in an ographic frame.
get_template_and_number_sphere_ographic(self, naif_code) ==
    IF self.crs_type = OCENTRIC
    THEN IF self.datum.body.shape = SPHERE
         THEN Return2(BodyCrs_TEMPLATE_SPHERE, get_code(SPHERE_OCENTRIC, naif_code))
         ELSE IF self.datum.body.shape = ELLIPSE
         THEN Return2(BodyCrs_TEMPLATE_OCENTRIC, get_code(ELLIPSE_OCENTRIC, naif_code))
         ELSE Return2(BodyCrs_TEMPLATE_OCENTRIC, get_code(TRIAXIAL_OCENTRIC, naif_code))
    ELSE IF self.datum.body.shape = TRIAXIAL
         THEN Return2(BodyCrs_TEMPLATE_OGRAPHIC, get_code(TRIAXIAL_OGRAPHIC, naif_code))
         ELSE Return2(BodyCrs_TEMPLATE_OGRAPHIC, get_code(ELLIPSE_OGRAPHIC, naif_code))

\* _get_template_and_number that takes the template of a small body
\* (id >= 90000) from the sphere branch.
get_template_and_number_by_id(self, naif_code) ==
    IF self.crs_type = OCENTRIC
    THEN IF self.datum.body.shape = SPHERE \/ naif_code >= 90000
         THEN Return2(BodyCrs_TEMPLATE_SPHERE,
                      get_code(IF self.datum.body.shape = SPHERE THEN SPHERE_OCENTRIC
                               ELSE IF self.datum.body.shape = ELLIPSE
                               THEN ELLIPSE_OCENTRIC ELSE TRIAXIAL_OCENTRIC, naif_code))
         ELSE IF self.datum.body.shape = ELLIPSE
         THEN Return2(BodyCrs_TEMPLATE_OCENTRIC, get_code(ELLIPSE_OCENTRIC, naif_code))
         ELSE IF self.datum.body.shape = TRIAXIAL
         THEN Return2(BodyCrs_TEMPLATE_OCENTRIC, get_code(TRIAXIAL_OCENTRIC, naif_code))
         ELSE Raise("ValueError")
    ELSE IF self.crs_type = OGRAPHIC
    THEN IF self.datum.body.shape = ELLIPSE
         THEN Return2(BodyCrs_TEMPLATE_OGRAPHIC, get_code(ELLIPSE_OGRAPHIC, naif_code))
         ELSE IF self.datum.body.shape = TRIAXIAL
         THEN Return2(BodyCrs_TEMPLATE_OGRAPHIC, get_code(TRIAXIAL_OGRAPHIC, naif_code))
         ELSE Raise("ValueError")
    ELSE Raise("ValueError")

\* BodyCrs._get_template_and_number
_get_template_and_number(self, naif_code) ==
    IF self.crs_type = OCENTRIC
    THEN IF self.datum.body.shape = SPHERE
         THEN Return2(BodyCrs_TEMPLATE_SPHERE, get_code(SPHERE_OCENTRIC, naif_code))
         ELSE IF self.datum.body.shape = ELLIPSE
         THEN Return2(BodyCrs_TEMPLATE_OCENTRIC, get_code(ELLIPSE_OCENTRIC, naif_code))
         ELSE IF self.datum.body.shape = TRIAXIAL
         THEN Return2(BodyCrs_TEMPLATE_OCENTRIC, get_code(TRIAXIAL_OCENTRIC, naif_code))
         ELSE Raise("ValueError")
    ELSE IF self.crs_type = OGRAPHIC
    THEN IF self.datum.body.shape = ELLIPSE
         THEN Return2(BodyCrs_TEMPLATE_OGRAPHIC, get_code(ELLIPSE_OGRAPHIC, naif_code))
         ELSE IF self.datum.body.shape = TRIAXIAL
         THEN Return2(BodyCrs_TEMPLATE_OGRAPHIC, get_code(TRIAXIAL_OGRAPHIC, naif_code))
         ELSE Raise("ValueError")
    ELSE Raise("ValueError")

\* BodyCrs.__init__: the object, or the error that leaves no object.
BodyCrs_init(datum, number_body, direction, crs_type) ==
    LET self1 == [datum |-> datum,
                  crs_type |-> crs_type,
                  direction |-> _create_direction(datum.name, direction, crs_type,
                                                  number_body),
                  name |-> datum.name]
        tn == _get_template_and_number(self1, number_body)
    IN  IF tn.status # "ok"
        THEN [status |-> tn.status, self |-> <<>>]
        ELSE [status |-> "ok",
              self |-> [datum |-> self1.datum,
                        crs_type |-> self1.crs_type,
                        direction |-> self1.direction,
                        name |-> self1.name,
                        number |-> tn.number,
                        template |-> tn.template]]

\* BodyCrs.iau_code
BodyCrs_iau_code(self) == self.number

\* BodyCrs._create_remark
_create_remark(self) ==
    IF self.datum.body.warning = None
    THEN SOURCE_IAU
    ELSE PyStr(self.datum.body.warning) \o SOURCE_IAU

BodyCrs_kw(self) ==
    [name |-> Plain(Text(self.name)),
     version |-> Arg(VERSION),
     datum |-> Plain(DatumWkt(self.datum)),
     number |-> Arg(Int_(BodyCrs_iau_code(self))),
     direction |-> Arg(self.direction),
     remark |-> Plain(_create_remark(self))]

\* BodyCrs.wkt without its assertion.
BodyCrs_wkt_unchecked(self) == Substitute(self.template, BodyCrs_kw(self))

\* BodyCrs.wkt
BodyCrs_wkt(self) ==
    IF self.direction = None
    THEN [status |-> "AssertionError", val |-> <<>>]
    ELSE Substitute(self.template, BodyCrs_kw(self))

---------------------------------------------------------------------------
(* Planetocentric and Planetographic.  A factory is its class, its row and *)
(* its shape; Planetographic inherits everything but crs_type and          *)
(* _create_crs.                                                            *)

\* Planetocentric.crs_type
Planetocentric_crs_type(self) == OCENTRIC

\* Planetographic.crs_type
Planetographic_crs_type(self) == OGRAPHIC

\* self.crs_type, by the class of self.
crs_type_of(self) ==
    IF self.class = "Planetographic" THEN Planetographic_crs_type(self)
    ELSE Planetocentric_crs_type(self)

\* Planetocentric._create_body and _create_datum
Planetocentric__create_datum(self) ==
    MakeDatum(self.row.Body, self.ref_shape, self.row.warning)

\* Planetocentric._create_crs: the arguments handed to BodyCrs and its outcome.
Planetocentric__create_crs(self, datum) ==
    [args |-> [name |-> datum.name, naif |-> self.row.Naif_id,
               rotation |-> self.row.rotation, shape |-> datum.body.shape,
               crs_type |-> OCENTRIC],
     r |-> BodyCrs_init(datum, self.row.Naif_id, self.row.rotation, OCENTRIC)]

\* Planetographic without its own _create_crs: the inherited one.
Planetographic__create_crs_inherited(self, datum) ==
    Planetocentric__create_crs(self, datum)

\* Planetographic._create_crs
Planetographic__create_crs(self, datum) ==
    [args |-> [name |-> datum.name, naif |-> self.row.Naif_id,
               rotation |-> self.row.rotation, shape |-> datum.body.shape,
               crs_type |-> OGRAPHIC],
     r |-> BodyCrs_init(datum, self.row.Naif_id, self.row.rotation, OGRAPHIC)]

\* Planetocentric._crs, with self._create_crs dispatched on the class of self.
Planetocentric__crs(self) ==
    LET datum == Planetocentric__create_datum(self)
    IN  IF self.class = "Planetographic"
        THEN Planetographic__create_crs(self, datum)
        ELSE Planetocentric__create_crs(self, datum)

\* Planetocentric.__init__, which Planetographic inherits.
Planetocentric_init(class, row, ref_shape) ==
    LET self1 == [class |-> class, row |-> row, ref_shape |-> ref_shape]
    IN  [self |-> self1, crs |-> Planetocentric__crs(self1)]

---------------------------------------------------------------------------
(* Conversion.                                                             *)

TEMPLATE_PARAMETER ==
    <<Lit("PARAMETER[\""), Var("parameter_name"), Lit("\", "),
      Var("parameter_value"), Lit(",\n            "), Var("unit"),
      Lit(",\n            ID[\""), Var("authority"), Lit("\", "),
      Var("authority_code"), Lit("]]")>>

TEMPLATE_CONVERSION ==
    <<Lit("CONVERSION[\""), Var("conversion_name"),
      Lit("\",\n        METHOD[\""), Var("method_name"),
      Lit("\",\n            ID[\""), Var("authority"), Lit("\", "),
      Var("authority_code"), Lit("]],\n        "), Var("params"), Lit("],")>>

\* Conversion.__init__
Conversion_init(conversion_name, method_name, method_id, projection) ==
    [conversion_name |-> conversion_name, method_name |-> method_name,
     method_id |-> method_id, projection |-> projection]

\* np.array(list): a list holding a str becomes an array of str.
NpArray(list) ==
    IF \E i \in DOMAIN list : list[i].k = "str"
    THEN [i \in DOMAIN list |-> Str(PyStr(list[i]))]
    ELSE list

\* d[key]: the dict lookup of a name.
HasKey(d, key) == key.k = "str" /\ key.s \in DOMAIN d

\* What rendering one (name, value) row raises, if anything.
ParameterError(mapping, parameter) ==
    IF ~HasKey(mapping, parameter[1]) THEN "KeyError"
    ELSE IF Len(mapping[parameter[1].s]) < 3 THEN "IndexError"
    ELSE "ok"

\* parameter_template.substitute(...) of one (name, value) row.
ParameterWkt(mapping, parameter) ==
    LET method_and_map == mapping[parameter[1].s]
    IN  Substitute(TEMPLATE_PARAMETER,
                   [parameter_name |-> Arg(parameter[1]),
                    parameter_value |-> Arg(parameter[2]),
                    unit |-> Arg(method_and_map[3]),
                    authority |-> Arg(method_and_map[1]),
                    authority_code |-> Arg(method_and_map[2])]).val

\* The mapping table after the lookups of a Conversion.wkt that reads it with
\* setdefault: every name without entry gets a default one.
Conversion_wkt_mapping_setdefault(self, mapping) ==
    LET names == {self.projection[i].s :
                    i \in {j \in 3..Len(self.projection) :
                              self.projection[j].k = "str"}}
    IN  [key \in DOMAIN mapping \cup names |->
            IF key \in DOMAIN mapping THEN mapping[key]
            ELSE <<Str("EPSG"), Int_(0), Str("")>>]

\* ProjectionBody.METHOD_AND_PARAM_MAPPING after Conversion.wkt: the table is
\* read by subscription only, which never inserts.
Conversion_wkt_mapping(self, mapping) == mapping

\* Conversion.wkt with dict.get and a default entry in place of the lookups.
Conversion_wkt_default_entry(self, mapping) ==
    LET present == SelectSeq(SubSeq(self.projection, 4, Len(self.projection)),
                             LAMBDA param : param # None)
        flat == NpArray(present)
        Entry(key) == IF HasKey(mapping, key) /\ Len(mapping[key.s]) >= 3
                      THEN mapping[key.s]
                      ELSE <<Str("EPSG"), Int_(0), Str("")>>
        params == [i \in 1..(Len(flat) \div 2) |->
                     Substitute(TEMPLATE_PARAMETER,
                                [parameter_name |-> Arg(flat[2 * i - 1]),
                                 parameter_value |-> Arg(flat[2 * i]),
                                 unit |-> Arg(Entry(flat[2 * i - 1])[3]),
                                 authority |-> Arg(Entry(flat[2 * i - 1])[1]),
                                 authority_code |-> Arg(Entry(flat[2 * i - 1])[2])]).val]
    IN  Substitute(TEMPLATE_CONVERSION,
                   [conversion_name |-> Arg(self.projection[2]),
                    method_name |-> Arg(self.projection[3]),
                    authority |-> Arg(Entry(self.projection[3])[1]),
                    authority_code |-> Arg(Entry(self.projection[3])[2]),
                    params |-> Joined(",\n\t\t", params)])

\* Conversion.wkt that renders the slot pairs last first.
Conversion_wkt_reversed(self, mapping) ==
    LET present == SelectSeq(SubSeq(self.projection, 4, Len(self.projection)),
                             LAMBDA param : param # None)
        flat == NpArray(present)
        n == Len(flat) \div 2
        params == [i \in 1..n |->
                     ParameterWkt(mapping, <<flat[2 * (n + 1 - i) - 1],
                                             flat[2 * (n + 1 - i)]>>)]
    IN  Substitute(TEMPLATE_CONVERSION,
                   [conversion_name |-> Arg(self.projection[2]),
                    method_name |-> Arg(self.projection[3]),
                    authority |-> Arg(mapping[self.projection[3].s][1]),
                    authority_code |-> Arg(mapping[self.projection[3].s][2]),
                    params |-> Joined(",\n\t\t", params)])

\* Conversion.wkt, reading the mapping table as it is at the call.
Conversion_wkt(self, mapping) ==
    LET present == SelectSeq(SubSeq(self.projection, 4, Len(self.projection)),
                             LAMBDA param : param # None)
        flat == NpArray(present)
        parameters == [i \in 1..(Len(flat) \div 2) |->
                         <<flat[2 * i - 1], flat[2 * i]>>]
        bad == {i \in DOMAIN parameters :
                    ParameterError(mapping, parameters[i]) # "ok"}
        first == CHOOSE i \in bad : \A j \in bad : i <= j
    IN  IF Len(flat) % 2 # 0
        THEN [status |-> "ValueError", val |-> <<>>]
        ELSE IF bad # {}
        THEN [status |-> ParameterError(mapping, parameters[first]), val |-> <<>>]
        ELSE IF ~HasKey(mapping, self.projection[3])
        THEN [status |-> "KeyError", val |-> <<>>]
        ELSE LET params == [i \in DOMAIN parameters |->
                               ParameterWkt(mapping, parameters[i])]
             IN  Substitute(TEMPLATE_CONVERSION,
                     [conversion_name |-> Arg(self.projection[2]),
                      method_name |-> Arg(self.projection[3]),
                      authority |-> Arg(mapping[self.projection[3].s][1]),
                      authority_code |-> Arg(mapping[self.projection[3].s][2]),
                      params |-> Joined(",\n\t\t", params)])

---------------------------------------------------------------------------
(* ProjectionBody.                                                         *)

PROJ_HEAD(base) ==
    <<Lit("PROJCRS[\""), Var("projection_name"), Lit("\",\n    "), Lit(base),
      Lit("[\""), Var("name"), Lit(" ("), Var("version"), Lit(") "),
      Var("reference"), Lit("\",\n        "), Var("datum"),
      Lit(",\n        ID[\"IAU\", "), Var("number_body"), Lit(", "),
      Var("version"), Lit("]],\n    "), Var("conversion")>>

PROJ_TAIL ==
    <<Lit("\n    CS[Cartesian, 2],\n        AXIS[\""), Var("direction_name"),
      Lit("\", "), Var("direction"),
      Lit(",\n            ORDER[1],\n            LENGTHUNIT[\"metre\", 1]],\n        AXIS[\"Northing (N)\", north,\n            ORDER[2],\n            LENGTHUNIT[\"metre\", 1]],\n    ID[\"IAU\", "),
      Var("number"), Lit(", "), Var("version"), Lit("]]")>>

TEMPLATE_OCENTRIC_SPHERE == PROJ_HEAD("BASEGEOGCRS") \o PROJ_TAIL
TEMPLATE_OCENTRIC == PROJ_HEAD("BASEGEODCRS") \o PROJ_TAIL
TEMPLATE_OGRAPHIC == PROJ_HEAD("BASEGEOGCRS") \o PROJ_TAIL

\* ProjectionBody.__init__; body_crs is a reference to a BodyCrs.
ProjectionBody_init(body_crs, projection, template) ==
    [body_crs |-> body_crs,
     projection |-> projection,
     template |-> template,
     conversion |-> Conversion_init(projection[2], projection[3], "METHOD",
                                    projection)]

\* ProjectionBody.create without the branch for a sphere.
ProjectionBody_create_no_sphere_branch(body_crs, crs_obj, projection) ==
    IF crs_obj.crs_type = OCENTRIC
    THEN [status |-> "ok",
          self |-> ProjectionBody_init(body_crs, projection, TEMPLATE_OCENTRIC)]
    ELSE IF crs_obj.crs_type = OGRAPHIC
    THEN [status |-> "ok",
          self |-> ProjectionBody_init(body_crs, projection, TEMPLATE_OGRAPHIC)]
    ELSE [status |-> "ValueError", self |-> <<>>]

\* ProjectionBody.create: the template chosen for the BodyCrs object crs_obj,
\* whose reference is body_crs.
ProjectionBody_create(body_crs, crs_obj, projection) ==
    IF crs_obj.crs_type = OCENTRIC /\ crs_obj.datum.body.shape = SPHERE
    THEN [status |-> "ok",
          self |-> ProjectionBody_init(body_crs, projection, TEMPLATE_OCENTRIC_SPHERE)]
    ELSE IF crs_obj.crs_type = OCENTRIC
    THEN [status |-> "ok",
          self |-> ProjectionBody_init(body_crs, projection, TEMPLATE_OCENTRIC)]
    ELSE IF crs_obj.crs_type = OGRAPHIC
    THEN [status |-> "ok",
          self |-> ProjectionBody_init(body_crs, projection, TEMPLATE_OGRAPHIC)]
    ELSE [status |-> "ValueError", self |-> <<>>]

\* ProjectionBody._create_reference
_create_reference(self) ==
    IF self.body_crs.crs_type = OCENTRIC /\ self.body_crs.datum.body.shape = SPHERE
    THEN "- " \o self.body_crs.datum.body.shape
    ELSE "/ " \o self.body_crs.crs_type

\* ProjectionBody._create_projection
_create_projection(self) ==
    LET projection == Text(self.body_crs.datum.body.name) \o " ("
                          \o PyStr(VERSION) \o ") "
    IN  IF /\ self.body_crs.crs_type = OCENTRIC
           /\ self.body_crs.datum.body.shape = SPHERE
        THEN projection \o "- " \o self.body_crs.datum.body.shape \o " / "
                 \o PyStr(self.projection[2])
        ELSE projection \o "/ " \o self.body_crs.crs_type \o " / "
                 \o PyStr(self.projection[2])

\* ProjectionBody.iau_code without the record's offset.
ProjectionBody_iau_code_no_offset(self) == BodyCrs_iau_code(self.body_crs)

\* ProjectionBody.iau_code; self.body_crs is the BodyCrs referred to.
ProjectionBody_iau_code(self) ==
    BodyCrs_iau_code(self.body_crs) + PyInt(self.projection[1])

\* ProjectionBody.wkt that labels the axis Westing unless the direction is east.
ProjectionBody_wkt_westing_unless_east(self, mapping) ==
    LET conversion == Conversion_wkt(self.conversion, mapping)
    IN  IF conversion.status # "ok"
        THEN [status |-> conversion.status, val |-> <<>>]
        ELSE Substitute(self.template,
                 [projection_name |-> Plain(_create_projection(self)),
                  name |-> Plain(Text(self.body_crs.name)),
                  version |-> Arg(VERSION),
                  datum |-> Plain(DatumWkt(self.body_crs.datum)),
                  number |-> Arg(Int_(BodyCrs_iau_code(self.body_crs)
                                          + PyInt(self.projection[1]))),
                  number_body |-> Arg(Int_(BodyCrs_iau_code(self.body_crs))),
                  conversion |-> Nested(conversion.val),
                  reference |-> Plain(_create_reference(self)),
                  direction |-> Arg(self.body_crs.direction),
                  direction_name |-> Plain(IF self.body_crs.direction = Str("east")
                                               THEN "Easting (E)"
                                               ELSE "Westing (W)")])

\* ProjectionBody.wkt; the keyword arguments are evaluated in the order
\* written, and the only one that can raise is the conversion.
ProjectionBody_wkt(self, mapping) ==
    LET conversion == Conversion_wkt(self.conversion, mapping)
    IN  IF conversion.status # "ok"
        THEN [status |-> conversion.status, val |-> <<>>]
        ELSE Substitute(self.template,
                 [projection_name |-> Plain(_create_projection(self)),
                  name |-> Plain(Text(self.body_crs.name)),
                  version |-> Arg(VERSION),
                  datum |-> Plain(DatumWkt(self.body_crs.datum)),
                  number |-> Arg(Int_(BodyCrs_iau_code(self.body_crs)
                                          + PyInt(self.projection[1]))),
                  number_body |-> Arg(Int_(BodyCrs_iau_code(self.body_crs))),
                  conversion |-> Nested(conversion.val),
                  reference |-> Plain(_create_reference(self)),
                  direction |-> Arg(self.body_crs.direction),
                  direction_name |-> Plain(IF self.body_crs.direction = Str("west")
                                               THEN "Westing (W)"
                                               ELSE "Easting (E)")])

---------------------------------------------------------------------------
(* Inputs.                                                                 *)

Earth == <<"E", "a", "r", "t", "h">>
Mars == <<"M", "a", "r", "s">>
Io == <<"I", "o">>
Comet == <<"C", "o", "m", "e", "t">>
Moon == <<"M", "o", "o", "n">>

\* Rows of the body table, as far as crs.py reads them.
Rows ==
    {[Body |-> Earth, Naif_id |-> 399, rotation |-> "Retrograde", warning |-> None],
     [Body |-> Mars, Naif_id |-> 499, rotation |-> "Direct", warning |-> None],
     [Body |-> Io, Naif_id |-> 501, rotation |-> "Unknown",
      warning |-> Str("Use mean radius. ")],
     [Body |-> Comet, Naif_id |-> 120000, rotation |-> "Unknown", warning |-> None]}

\* The rows that projections are built on: the Moon rotates Direct and is east
\* by its name.
ProjRows ==
    Rows \cup {[Body |-> Moon, Naif_id |-> 301, rotation |-> "Direct",
                warning |-> None]}

\* The shapes handed to the constructor; Point is none of the three known ones.
Shapes == {SPHERE, ELLIPSE, TRIAXIAL, "Point"}

\* The (row, shape, frame type) triples of the BodyCrs that projections are
\* built on: east in each Ocentric template, west, unresolved, east by id,
\* east by name.
ProjInputs ==
    {<<Mars, SPHERE, OCENTRIC>>, <<Mars, ELLIPSE, OCENTRIC>>,
     <<Mars, TRIAXIAL, OCENTRIC>>,
     <<Mars, TRIAXIAL, OGRAPHIC>>, <<Io, ELLIPSE, OGRAPHIC>>,
     <<Comet, ELLIPSE, OGRAPHIC>>, <<Moon, ELLIPSE, OGRAPHIC>>}

\* Records a caller hands to ProjectionBody.create that the mapping table does
\* not cover: a parameter without entry, a method without entry.
DriftRecords ==
    {Record(95, "Oblique Mercator", "Mercator (Spherical)",
            <<Param("Latitude of natural origin", 0),
              Param("Azimuth of initial line", 45),
              Param("False easting", 0)>>),
     Record(96, "Cassini", "Cassini-Soldner",
            <<Param("Latitude of natural origin", 0),
              Param("False easting", 0)>>)}

\* The arguments of the direction rule.
DirNames ==
    {Earth, EARTH, <<"s", "u", "n">>, <<"M", "o", "o", "n">>, Mars, Io,
     <<"M", "o", "o", "n", "s">>}
DirRotations == {"Direct", "Retrograde", "Unknown", "direct"}
DirIds == {10, 399, 501, 89999, 90000, 120000}

---------------------------------------------------------------------------
(* State and operations.                                                   *)

NoCall == [op |-> "", self |-> 0, args |-> <<>>, status |-> "", val |-> <<>>]

Init ==
    /\ crs = <<>>
    /\ projs = <<>>
    /\ gens = <<>>
    /\ ret = NoCall
    /\ PROJECTION_DATA = PROJECTION_DATA_0
    /\ METHOD_AND_PARAM_MAPPING = METHOD_AND_PARAM_MAPPING_0

\* A call of BodyCrs._create_direction.
CreateDirection(name, rotation, crs_type, number_body) ==
    /\ ret' = [op |-> "_create_direction", self |-> 0,
               args |-> [name |-> name, rotation |-> rotation,
                         crs_type |-> crs_type, number_body |-> number_body],
               status |-> "ok",
               val |-> _create_direction(name, rotation, crs_type, number_body)]
    /\ UNCHANGED <<crs, projs, gens, PROJECTION_DATA, METHOD_AND_PARAM_MAPPING>>

\* BodyCrs(datum, row["Naif_id"], row["rotation"], crs_type) on the datum of a
\* row and a shape.  A cell of crs holds the object (self) and, as history,
\* the arguments it was constructed from (args).
NewBodyCrs(row, shape, crs_type) ==
    /\ Len(crs) < MaxCrs
    /\ LET args == [name |-> row.Body, naif |-> row.Naif_id,
                    rotation |-> row.rotation, shape |-> shape,
                    crs_type |-> crs_type]
           r == BodyCrs_init(MakeDatum(row.Body, shape, row.warning),
                             row.Naif_id, row.rotation, crs_type)
       IN  IF r.status = "ok"
           THEN /\ crs' = Append(crs, [self |-> r.self, args |-> args])
                /\ ret' = [op |-> "BodyCrs", self |-> Len(crs) + 1, args |-> args,
                           status |-> "ok", val |-> <<>>]
           ELSE /\ crs' = crs
                /\ ret' = [op |-> "BodyCrs", self |-> 0, args |-> args,
                           status |-> r.status, val |-> <<>>]
    /\ UNCHANGED <<projs, gens, PROJECTION_DATA, METHOD_AND_PARAM_MAPPING>>

\* crs[i].wkt()
BodyCrsWkt(i) ==
    /\ i \in DOMAIN crs
    /\ LET r == BodyCrs_wkt(crs[i].self)
       IN  ret' = [op |-> "BodyCrs.wkt", self |-> i, args |-> <<>>,
                   status |-> r.status, val |-> r.val]
    /\ UNCHANGED <<crs, projs, gens, PROJECTION_DATA, METHOD_AND_PARAM_MAPPING>>

\* One BodyCrs constructed, on which projections are built.
InitProj ==
    /\ \E row \in ProjRows, shape \in Shapes, crs_type \in CrsType :
           /\ <<row.Body, shape, crs_type>> \in ProjInputs
           /\ crs = <<[self |-> BodyCrs_init(MakeDatum(row.Body, shape, row.warning),
                                             row.Naif_id, row.rotation,
                                             crs_type).self,
                       args |-> [name |-> row.Body, naif |-> row.Naif_id,
                                 rotation |-> row.rotation, shape |-> shape,
                                 crs_type |-> crs_type]]>>
    /\ projs = <<>>
    /\ gens = <<>>
    /\ ret = NoCall
    /\ PROJECTION_DATA = PROJECTION_DATA_0
    /\ METHOD_AND_PARAM_MAPPING = METHOD_AND_PARAM_MAPPING_0

\* The ProjectionBody projs[p] with its BodyCrs reference followed.
Deref(p) == [projs[p] EXCEPT !.body_crs = crs[projs[p].body_crs].self]

\* Where the caller keeps the ProjectionBody of BodyCrs i and a record: under
\* the reference of the BodyCrs and the offset of the record.
Key(i, projection) == <<i, PyInt(projection[1])>>

\* ProjectionBody.create(crs[i], projection), called once for a BodyCrs and a
\* record.
Create(i, projection) ==
    /\ i \in DOMAIN crs
    /\ Cardinality(DOMAIN projs) < MaxProj
    /\ Key(i, projection) \notin DOMAIN projs
    /\ LET r == ProjectionBody_create(i, crs[i].self, projection)
       IN  IF r.status = "ok"
           THEN /\ projs' = [k \in DOMAIN projs \cup {Key(i, projection)} |->
                               IF k = Key(i, projection) THEN r.self ELSE projs[k]]
                /\ ret' = [op |-> "ProjectionBody.create", self |-> Key(i, projection),
                           args |-> projection, status |-> "ok", val |-> <<>>]
           ELSE /\ projs' = projs
                /\ ret' = [op |-> "ProjectionBody.create", self |-> <<>>,
                           args |-> projection, status |-> r.status, val |-> <<>>]
    /\ UNCHANGED <<crs, gens, PROJECTION_DATA, METHOD_AND_PARAM_MAPPING>>

\* projs[p].wkt(), which calls the wkt() of the Conversion that projs[p]
\* holds in a private attribute.
ProjWkt(p) ==
    /\ p \in DOMAIN projs
    /\ LET r == ProjectionBody_wkt(Deref(p), METHOD_AND_PARAM_MAPPING)
       IN  ret' = [op |-> "ProjectionBody.wkt", self |-> p, args |-> <<>>,
                   status |-> r.status, val |-> r.val]
    /\ METHOD_AND_PARAM_MAPPING'
           = Conversion_wkt_mapping(Deref(p).conversion, METHOD_AND_PARAM_MAPPING)
    /\ UNCHANGED <<crs, projs, gens, PROJECTION_DATA>>

\* Where a shared iterator over the catalog would resume.
IterStart_shared(gs) == IF gs = <<>> THEN 0 ELSE gs[Len(gs)].pos

\* The index the for loop of a new generator starts from.
IterStart(gs) == 0

\* ProjectionBody.iter_projection(crs[i]): a new generator.  pos counts the
\* records it has yielded; out is the history of what it yielded.
IterProjection(i) ==
    /\ i \in DOMAIN crs
    /\ Len(gens) < MaxGen
    /\ gens' = Append(gens, [body_crs |-> i, pos |-> IterStart(gens),
                             done |-> FALSE, out |-> <<>>])
    /\ ret' = [op |-> "iter_projection", self |-> Len(gens) + 1, args |-> <<>>,
               status |-> "ok", val |-> <<>>]
    /\ UNCHANGED <<crs, projs, PROJECTION_DATA, METHOD_AND_PARAM_MAPPING>>

\* next(gens[g]): the next ProjectionBody, or StopIteration.
GenNext(g) ==
    /\ g \in DOMAIN gens
    /\ LET gen == gens[g]
       IN  IF gen.pos < Len(PROJECTION_DATA)
           THEN LET r == ProjectionBody_create(gen.body_crs, crs[gen.body_crs].self,
                                               PROJECTION_DATA[gen.pos + 1])
                IN  /\ gens' = [gens EXCEPT
                                    ![g].pos = @ + 1,
                                    ![g].out = Append(@, [body_crs |-> r.self.body_crs,
                                                          projection |-> r.self.projection])]
                    /\ ret' = [op |-> "next", self |-> g, args |-> <<>>,
                               status |-> r.status, val |-> r.self]
           ELSE /\ gens' = [gens EXCEPT ![g].done = TRUE]
                /\ ret' = [op |-> "next", self |-> g, args |-> <<>>,
                           status |-> "StopIteration", val |-> <<>>]
    /\ UNCHANGED <<crs, projs, PROJECTION_DATA, METHOD_AND_PARAM_MAPPING>>

\* The records of a list.
Range(f) == {f[i] : i \in DOMAIN f}

\* Projections of one BodyCrs: construction and rendering.
NextProj ==
    \/ \E i \in DOMAIN crs, projection \in Range(PROJECTION_DATA) \cup DriftRecords :
           Create(i, projection)
    \/ \E p \in DOMAIN projs : ProjWkt(p)

SpecProj == InitProj /\ [][NextProj]_vars

\* Iterations over the catalog for one BodyCrs.
NextIter ==
    \/ \E i \in DOMAIN crs : IterProjection(i)
    \/ \E g \in DOMAIN gens : GenNext(g)

SpecIter == InitProj /\ [][NextIter]_vars

\* crs[i].iau_code
BodyCrsIauCode(i) ==
    /\ i \in DOMAIN crs
    /\ ret' = [op |-> "BodyCrs.iau_code", self |-> i, args |-> <<>>,
               status |-> "ok", val |-> <<BodyCrs_iau_code(crs[i].self)>>]
    /\ UNCHANGED <<crs, projs, gens, PROJECTION_DATA, METHOD_AND_PARAM_MAPPING>>

\* projs[p].iau_code
ProjIauCode(p) ==
    /\ p \in DOMAIN projs
    /\ ret' = [op |-> "ProjectionBody.iau_code", self |-> p, args |-> <<>>,
               status |-> "ok", val |-> <<ProjectionBody_iau_code(Deref(p))>>]
    /\ UNCHANGED <<crs, projs, gens, PROJECTION_DATA, METHOD_AND_PARAM_MAPPING>>

\* The records projections are created from when all the calls are mixed:
\* two of the catalog and the two that the mapping table does not cover.
FrameRecords == {PROJECTION_DATA_0[1], PROJECTION_DATA_0[5]} \cup DriftRecords

\* Every call on the objects of one BodyCrs, in any order: wkt() and iau_code
\* of the BodyCrs and of its projections, and one iteration over the catalog.
NextFrame ==
    \/ \E i \in DOMAIN crs : BodyCrsWkt(i)
    \/ \E i \in DOMAIN crs : BodyCrsIauCode(i)
    \/ \E i \in DOMAIN crs, projection \in FrameRecords : Create(i, projection)
    \/ \E p \in DOMAIN projs : ProjWkt(p)
    \/ \E p \in DOMAIN projs : ProjIauCode(p)
    \/ \E i \in DOMAIN crs : gens = <<>> /\ IterProjection(i)
    \/ \E g \in DOMAIN gens : GenNext(g)

SpecFrame == InitProj /\ [][NextFrame]_vars

\* Planetocentric(row, ref_shape) or Planetographic(row, ref_shape).  The
\* cell of the BodyCrs also holds the factory that holds it.
NewFactory(class, row, ref_shape) ==
    /\ Len(crs) < MaxCrs
    /\ LET f == Planetocentric_init(class, row, ref_shape)
       IN  IF f.crs.r.status = "ok"
           THEN /\ crs' = Append(crs, [self |-> f.crs.r.self, args |-> f.crs.args,
                                       factory |-> f.self])
                /\ ret' = [op |-> class, self |-> Len(crs) + 1,
                           args |-> [row |-> row, ref_shape |-> ref_shape],
                           status |-> "ok", val |-> <<>>]
           ELSE /\ crs' = crs
                /\ ret' = [op |-> class, self |-> 0,
                           args |-> [row |-> row, ref_shape |-> ref_shape],
                           status |-> f.crs.r.status, val |-> <<>>]
    /\ UNCHANGED <<projs, gens, PROJECTION_DATA, METHOD_AND_PARAM_MAPPING>>

\* The two factories on the rows and shapes.
NextFactory ==
    \E class \in {"Planetocentric", "Planetographic"}, row \in Rows,
       ref_shape \in Shapes :
        NewFactory(class, row, ref_shape)

SpecFactory == Init /\ [][NextFactory]_vars

\* The direction rule on its own.
NextDir ==
    \E name \in DirNames, rotation \in DirRotations, crs_type \in CrsType,
       number_body \in DirIds :
        CreateDirection(name, rotation, crs_type, number_body)

SpecDir == Init /\ [][NextDir]_vars

\* Construction and rendering of BodyCrs objects.
Next ==
    \/ \E row \in Rows, shape \in Shapes, crs_type \in CrsType :
           NewBodyCrs(row, shape, crs_type)
    \/ \E i \in DOMAIN crs : BodyCrsWkt(i)

Spec == Init /\ [][Next]_vars

---------------------------------------------------------------------------
(* Properties.                                                             *)

East == Str("east")
West == Str("west")

\* The historical exception of the direction rule, on the arguments of a call.
Exception(name, number_body) ==
    number_body >= 90000 \/ Text(Upper(name)) \in {"SUN", "EARTH", "MOON"}

\* C1: _create_direction returns the result of the first matching rule:
\* (1) id >= 90000 or upper-cased name in {SUN, EARTH, MOON} gives east,
\* (2) Ocentric gives east, (3) Direct gives west, (4) Retrograde gives east,
\* (5) otherwise None; the result is a function of the arguments.
C1_DirectionRule ==
    ret.op = "_create_direction" =>
        LET a == ret.args
            r1 == Exception(a.name, a.number_body)
            r2 == a.crs_type = OCENTRIC
            r3 == a.rotation = "Direct"
            r4 == a.rotation = "Retrograde"
        IN  /\ r1 => ret.val = East
            /\ ~r1 /\ r2 => ret.val = East
            /\ ~r1 /\ ~r2 /\ r3 => ret.val = West
            /\ ~r1 /\ ~r2 /\ ~r3 /\ r4 => ret.val = East
            /\ ~r1 /\ ~r2 /\ ~r3 /\ ~r4 => ret.val = None

\* C1 witness: the name exception (mixed case) wins over Ographic and Direct.
C1_Witness ==
    /\ ret.op = "_create_direction"
    /\ ret.args.name = Earth
    /\ ret.args.number_body = 399
    /\ ret.args.crs_type = OGRAPHIC
    /\ ret.args.rotation = "Direct"
    /\ ret.val = East

\* The offsets of the five valid (shape, frame type) pairs.
ValidPairs ==
    {<<SPHERE, OCENTRIC>>, <<ELLIPSE, OGRAPHIC>>, <<ELLIPSE, OCENTRIC>>,
     <<TRIAXIAL, OGRAPHIC>>, <<TRIAXIAL, OCENTRIC>>}

Offset(shape, crs_type) ==
    CASE <<shape, crs_type>> = <<SPHERE, OCENTRIC>> -> 0
      [] <<shape, crs_type>> = <<ELLIPSE, OGRAPHIC>> -> 1
      [] <<shape, crs_type>> = <<ELLIPSE, OCENTRIC>> -> 2
      [] <<shape, crs_type>> = <<TRIAXIAL, OGRAPHIC>> -> 3
      [] <<shape, crs_type>> = <<TRIAXIAL, OCENTRIC>> -> 4

\* C2: a constructed BodyCrs has iau_code = n*100 + offset of its
\* (shape, frame type) pair, n the registry identifier it was built from.
C2_CodeIsIdTimes100PlusOffset ==
    \A i \in DOMAIN crs :
        LET a == crs[i].args
        IN  /\ <<a.shape, a.crs_type>> \in ValidPairs
            /\ BodyCrs_iau_code(crs[i].self)
                   = a.naif * 100 + Offset(a.shape, a.crs_type)

\* C2 witness: 499 Ellipse/Ocentric is 49902 and 399 Ellipse/Ographic is 39901.
C2_Witness ==
    /\ \E i \in DOMAIN crs :
           /\ crs[i].args.naif = 499
           /\ crs[i].args.shape = ELLIPSE
           /\ crs[i].args.crs_type = OCENTRIC
           /\ BodyCrs_iau_code(crs[i].self) = 49902
    /\ \E i \in DOMAIN crs :
           /\ crs[i].args.naif = 399
           /\ crs[i].args.shape = ELLIPSE
           /\ crs[i].args.crs_type = OGRAPHIC
           /\ BodyCrs_iau_code(crs[i].self) = 39901

\* C3: constructing a BodyCrs for Sphere/Ographic or for an unknown shape
\* fails in the constructor, whatever the other arguments; no object and no
\* text exists afterwards.
C3_InvalidPairFailsAtConstruction ==
    /\ \A i \in DOMAIN crs :
           <<crs[i].args.shape, crs[i].args.crs_type>> \in ValidPairs
    /\ (ret.op = "BodyCrs"
            /\ (\/ <<ret.args.shape, ret.args.crs_type>> = <<SPHERE, OGRAPHIC>>
                \/ ret.args.shape \notin {SPHERE, ELLIPSE, TRIAXIAL}))
           => /\ ret.status = "ValueError"
              /\ ret.self = 0
              /\ ret.val = <<>>

\* C3 witness: Sphere/Ographic failed for a row whose direction would be
\* unresolved, with an object built before it still the only one.
C3_Witness ==
    /\ ret.op = "BodyCrs"
    /\ ret.status = "ValueError"
    /\ ret.args.shape = SPHERE
    /\ ret.args.crs_type = OGRAPHIC
    /\ ret.args.naif = 501
    /\ ret.args.rotation = "Unknown"
    /\ Len(crs) = 1

\* C4: two BodyCrs have the same iau_code only if they were built from the
\* same registry identifier, shape and frame type; identical inputs give the
\* same iau_code.
C4_CodeInjective ==
    \A i, j \in DOMAIN crs :
        LET a == crs[i].args
            b == crs[j].args
        IN  /\ BodyCrs_iau_code(crs[i].self) = BodyCrs_iau_code(crs[j].self)
                   => /\ a.naif = b.naif
                      /\ a.shape = b.shape
                      /\ a.crs_type = b.crs_type
            /\ a = b => BodyCrs_iau_code(crs[i].self) = BodyCrs_iau_code(crs[j].self)

\* C4 witness: two objects of one body in two frames, and so two codes.
C4_Witness ==
    /\ Len(crs) = 2
    /\ crs[1].args.naif = crs[2].args.naif
    /\ crs[1].args.shape = crs[2].args.shape
    /\ crs[1].args.crs_type # crs[2].args.crs_type
    /\ BodyCrs_iau_code(crs[1].self) # BodyCrs_iau_code(crs[2].self)

\* The inputs whose direction no rule resolves.
UnresolvedArgs(a) ==
    /\ a.crs_type = OGRAPHIC
    /\ a.naif < 90000
    /\ Text(Upper(a.name)) \notin {"SUN", "EARTH", "MOON"}
    /\ a.rotation \notin {"Direct", "Retrograde"}

\* C5: a BodyCrs with unresolved direction is constructed and has its code,
\* but wkt() on it fails and returns no text; id 120000 with the same shape,
\* frame and unknown rotation resolves to east and wkt() succeeds.
C5_UnresolvedBodyWktFails ==
    /\ \A i \in DOMAIN crs :
           UnresolvedArgs(crs[i].args)
               => /\ crs[i].self.direction = None
                  /\ BodyCrs_iau_code(crs[i].self)
                         = crs[i].args.naif * 100
                               + Offset(crs[i].args.shape, crs[i].args.crs_type)
    /\ ret.op = "BodyCrs.wkt" /\ UnresolvedArgs(crs[ret.self].args)
           => ret.status # "ok" /\ ret.val = <<>>
    /\ (ret.op = "BodyCrs.wkt"
            /\ crs[ret.self].args.naif = 120000
            /\ crs[ret.self].args.crs_type = OGRAPHIC
            /\ crs[ret.self].args.rotation = "Unknown")
           => /\ ret.status = "ok"
              /\ Field(ret.val, "direction") = {"east"}
              /\ Keys(ret.val)
                     = {"name", "version", "datum", "direction", "number", "remark"}

\* C5 witness: wkt() failed on 501 Ellipse/Ographic, whose code is 50101,
\* with 120000 Ellipse/Ographic constructed beside it.
C5_Witness ==
    /\ ret.op = "BodyCrs.wkt"
    /\ ret.status = "AssertionError"
    /\ crs[ret.self].args.naif = 501
    /\ crs[ret.self].args.shape = ELLIPSE
    /\ crs[ret.self].args.crs_type = OGRAPHIC
    /\ BodyCrs_iau_code(crs[ret.self].self) = 50101
    /\ \E i \in DOMAIN crs :
           /\ crs[i].args.naif = 120000
           /\ crs[i].args.shape = ELLIPSE
           /\ crs[i].args.crs_type = OGRAPHIC

\* The BodyCrs that the ProjectionBody under key k refers to.
BodyOf(k) == crs[projs[k].body_crs].self

\* C6: ProjectionBody.wkt() fails and returns no text whenever the direction
\* of its BodyCrs is unresolved; an unresolved direction is never rendered as
\* an axis direction token nor replaced by a default axis label.
C6_UnresolvedProjectionWktFails ==
    (ret.op = "ProjectionBody.wkt" /\ BodyOf(ret.self).direction = None)
        => ret.status # "ok" /\ ret.val = <<>>

\* C7: ProjectionBody.iau_code is the BodyCrs code plus the offset of the
\* record; the outer ID rendered by wkt() is that value and the ID of the
\* nested base CRS is the BodyCrs code.
C7_ProjectedCode ==
    /\ \A k \in DOMAIN projs :
           ProjectionBody_iau_code(Deref(k)) = BodyCrs_iau_code(BodyOf(k)) + k[2]
    /\ (ret.op = "ProjectionBody.wkt" /\ ret.status = "ok")
           => /\ Field(ret.val, "number")
                     = {ToString(BodyCrs_iau_code(BodyOf(ret.self)) + ret.self[2])}
              /\ Field(ret.val, "number_body")
                     = {ToString(BodyCrs_iau_code(BodyOf(ret.self)))}

\* C7 witness: North Polar (offset 30) on code 49902 renders 49932 over the
\* base ID 49902.
C7_Witness ==
    /\ ret.op = "ProjectionBody.wkt"
    /\ ret.status = "ok"
    /\ ret.self[2] = 30
    /\ projs[ret.self].projection[2] = Str("North Polar")
    /\ BodyCrs_iau_code(BodyOf(ret.self)) = 49902
    /\ ProjectionBody_iau_code(Deref(ret.self)) = 49932
    /\ Field(ret.val, "number") = {"49932"}
    /\ Field(ret.val, "number_body") = {"49902"}

\* What one generator has to have yielded after n steps: the ProjectionBody
\* of the first n catalog records, on its BodyCrs.
IsCatalogPrefix(gen) ==
    /\ Len(gen.out) <= 17
    /\ \A k \in DOMAIN gen.out :
           gen.out[k] = [body_crs |-> gen.body_crs,
                         projection |-> PROJECTION_DATA_0[k]]

\* C8: iter_projection yields one ProjectionBody per catalog record (17), in
\* declaration order, each on the given BodyCrs and with a distinct offset;
\* every iteration, whenever started, yields that sequence from the first
\* record.
C8_IterationYieldsCatalogInOrder ==
    /\ Len(PROJECTION_DATA_0) = 17
    /\ \A g \in DOMAIN gens :
           /\ IsCatalogPrefix(gens[g])
           /\ gens[g].done => Len(gens[g].out) = 17
           /\ \A a, b \in DOMAIN gens[g].out :
                  a # b => PyInt(gens[g].out[a].projection[1])
                               # PyInt(gens[g].out[b].projection[1])
    /\ (ret.op = "next" /\ ret.status # "ok")
           => ret.status = "StopIteration" /\ Len(gens[ret.self].out) = 17
    /\ (ret.op = "next" /\ ret.status = "ok")
           => /\ ret.val.body_crs = gens[ret.self].body_crs
              /\ ret.val.projection
                     = PROJECTION_DATA_0[Len(gens[ret.self].out)]

\* C8 witness: the first iteration is exhausted after 17 records and a second
\* one on the same BodyCrs has yielded the first three.
C8_Witness ==
    /\ Len(gens) = 2
    /\ gens[1].done
    /\ Len(gens[1].out) = 17
    /\ gens[2].body_crs = gens[1].body_crs
    /\ Len(gens[2].out) = 3
    /\ gens[2].out[1].projection = PROJECTION_DATA_0[1]

\* The (name, value) pairs a record declares, absent slots left out.
DeclaredPairs(rec) ==
    SelectSeq([k \in 1..6 |-> <<rec[2 * k + 2], rec[2 * k + 3]>>],
              LAMBDA pair : pair[1] # None)

\* The PARAMETER clauses of the conversion nested in a rendered projected CRS.
Clauses(t) == Part(Part(t, "conversion")[1], "params")

\* C9: Conversion.wkt() renders one PARAMETER clause per present
\* (name, value) pair of the record, in declaration order, each with the
\* value declared next to its name; it does so for every catalog record.
C9_ParametersInDeclarationOrder ==
    ret.op = "ProjectionBody.wkt" =>
        LET rec == projs[ret.self].projection
            decl == DeclaredPairs(rec)
        IN  /\ rec \in Range(PROJECTION_DATA_0) => ret.status = "ok"
            /\ ret.status = "ok" =>
                   /\ Len(Clauses(ret.val)) = Len(decl)
                   /\ \A k \in DOMAIN decl :
                          /\ Field(Clauses(ret.val)[k], "parameter_name")
                                 = {decl[k][1].s}
                          /\ Field(Clauses(ret.val)[k], "parameter_value")
                                 = {ToString(decl[k][2].n)}

\* C9 witness: North Polar rendered with its five parameters in order.
C9_Witness ==
    /\ ret.op = "ProjectionBody.wkt"
    /\ ret.status = "ok"
    /\ ret.self[2] = 30
    /\ Len(Clauses(ret.val)) = 5
    /\ [k \in 1..5 |-> Field(Clauses(ret.val)[k], "parameter_name")]
           = <<{"Latitude of natural origin"}, {"Longitude of natural origin"},
               {"Scale factor at natural origin"}, {"False easting"},
               {"False northing"}>>
    /\ [k \in 1..5 |-> Field(Clauses(ret.val)[k], "parameter_value")]
           = <<{"90"}, {"0"}, {"1"}, {"0"}, {"0"}>>

\* A record naming a parameter or a method without entry in the mapping table.
Unmapped(rec) ==
    \/ rec[3].s \notin DOMAIN METHOD_AND_PARAM_MAPPING_0
    \/ \E k \in DOMAIN DeclaredPairs(rec) :
           DeclaredPairs(rec)[k][1].s \notin DOMAIN METHOD_AND_PARAM_MAPPING_0

\* C10: for a record naming a parameter or method without mapping entry the
\* ProjectionBody is built, but rendering fails with no text; the other
\* records of the same BodyCrs render, before and after, to the text that a
\* ProjectionBody newly built for them renders to with the table as loaded.
C10_UnmappedRecordFailsAlone ==
    /\ ret.op = "ProjectionBody.create"
           => /\ ret.status = "ok"
              /\ ret.self \in DOMAIN projs
              /\ projs[ret.self].projection = ret.args
    /\ (ret.op = "ProjectionBody.wkt" /\ Unmapped(projs[ret.self].projection))
           => ret.status # "ok" /\ ret.val = <<>>
    /\ (ret.op = "ProjectionBody.wkt" /\ ~Unmapped(projs[ret.self].projection))
           => /\ ret.status = "ok"
              /\ ret.val = ProjectionBody_wkt(
                               [ProjectionBody_create(
                                    ret.self[1], BodyOf(ret.self),
                                    projs[ret.self].projection).self
                                    EXCEPT !.body_crs = BodyOf(ret.self)],
                               METHOD_AND_PARAM_MAPPING_0).val

\* C10 witness: rendering failed for a record with an unmapped name while a
\* catalog record of the same BodyCrs is held too.
C10_Witness ==
    /\ ret.op = "ProjectionBody.wkt"
    /\ ret.status = "KeyError"
    /\ Unmapped(projs[ret.self].projection)
    /\ \E k \in DOMAIN projs :
           /\ k # ret.self
           /\ projs[k].body_crs = projs[ret.self].body_crs
           /\ projs[k].projection \in Range(PROJECTION_DATA_0)

\* The keyword a rendered geographic CRS opens with, and the coordinate
\* system its template declares.
Keyword(t) == t[1].text
CsOf(t) == t[7].text

\* C11: the template of a BodyCrs is chosen by (shape, frame type) only:
\* Sphere/Ocentric has the sphere template (GEOGCRS, CS ellipsoidal),
\* Ellipse or Triaxial with Ocentric the geocentric one (GEODCRS, CS
\* spherical), Ellipse or Triaxial with Ographic the geographic one (GEOGCRS,
\* CS ellipsoidal); rotation, name and registry identifier play no part.
C11_TemplateByShapeAndFrame ==
    /\ \A i \in DOMAIN crs :
           LET a == crs[i].args
               t == crs[i].self.template
           IN  /\ (a.shape = SPHERE /\ a.crs_type = OCENTRIC)
                      => t = BodyCrs_TEMPLATE_SPHERE
               /\ (a.shape \in {ELLIPSE, TRIAXIAL} /\ a.crs_type = OCENTRIC)
                      => t = BodyCrs_TEMPLATE_OCENTRIC
               /\ (a.shape \in {ELLIPSE, TRIAXIAL} /\ a.crs_type = OGRAPHIC)
                      => t = BodyCrs_TEMPLATE_OGRAPHIC
    /\ \A i, j \in DOMAIN crs :
           (crs[i].args.shape = crs[j].args.shape
                /\ crs[i].args.crs_type = crs[j].args.crs_type)
               => crs[i].self.template = crs[j].self.template
    /\ (ret.op = "BodyCrs.wkt" /\ ret.status = "ok")
           => LET a == crs[ret.self].args
              IN  /\ Keyword(ret.val)
                         = (IF a.crs_type = OCENTRIC /\ a.shape # SPHERE
                            THEN "GEODCRS[\"" ELSE "GEOGCRS[\"")
                  /\ CsOf(ret.val)
                         = (IF a.crs_type = OCENTRIC /\ a.shape # SPHERE
                            THEN SPHERICAL_CS ELSE ELLIPSOIDAL_CS)
                  /\ Len(ret.val) = Len(crs[ret.self].self.template)

\* C11 witness: Mars and the comet, of different rotation and identifier,
\* both as Ellipse/Ocentric, and the comet rendered from the geocentric
\* template.
C11_Witness ==
    /\ Len(crs) = 2
    /\ crs[1].args.naif = 499
    /\ crs[2].args.naif = 120000
    /\ crs[1].args.rotation # crs[2].args.rotation
    /\ crs[1].args.shape = ELLIPSE /\ crs[2].args.shape = ELLIPSE
    /\ crs[1].args.crs_type = OCENTRIC /\ crs[2].args.crs_type = OCENTRIC
    /\ crs[2].self.template = BodyCrs_TEMPLATE_OCENTRIC
    /\ ret.op = "BodyCrs.wkt" /\ ret.self = 2 /\ ret.status = "ok"
    /\ Keyword(ret.val) = "GEODCRS[\""

\* The embedding form of a (frame type, shape) pair.
BaseForm(crs_type, shape) ==
    IF crs_type = OCENTRIC /\ shape # SPHERE THEN "BASEGEODCRS" ELSE "BASEGEOGCRS"

\* C12: ProjectionBody.create chooses the embedding form of the base CRS by
\* (frame type, shape): BASEGEOGCRS for Ocentric with Sphere and for
\* Ographic, BASEGEODCRS for Ocentric with Ellipse or Triaxial; all records
\* of one BodyCrs get the same form, and wkt() renders it.
C12_EmbeddingByFrameAndShape ==
    /\ \A k \in DOMAIN projs :
           LET a == crs[k[1]].args
           IN  /\ projs[k].template[4].var = ""
               /\ projs[k].template[4].lit = BaseForm(a.crs_type, a.shape)
               /\ projs[k].template
                      \in {TEMPLATE_OCENTRIC_SPHERE, TEMPLATE_OCENTRIC, TEMPLATE_OGRAPHIC}
    /\ \A k, l \in DOMAIN projs :
           projs[k].body_crs = projs[l].body_crs
               => projs[k].template = projs[l].template
    /\ (ret.op = "ProjectionBody.wkt" /\ ret.status = "ok")
           => /\ ret.val[4].key = ""
              /\ ret.val[4].text = BaseForm(crs[ret.self[1]].args.crs_type,
                                            crs[ret.self[1]].args.shape)

\* C12 witness: two records of Mars as Sphere/Ocentric, the second rendered
\* with BASEGEOGCRS.
C12_Witness ==
    /\ Cardinality(DOMAIN projs) = 2
    /\ crs[1].args.shape = SPHERE
    /\ crs[1].args.crs_type = OCENTRIC
    /\ ret.op = "ProjectionBody.wkt" /\ ret.status = "ok"
    /\ ret.val[4].text = "BASEGEOGCRS"
    /\ \A k \in DOMAIN projs : projs[k].template[4].lit = "BASEGEOGCRS"

\* C13: in the text of ProjectionBody.wkt() the first axis is labelled
\* "Westing (W)" exactly when the direction of the BodyCrs is west and
\* "Easting (E)" otherwise, and its direction token is the direction of the
\* BodyCrs; so the label is "Westing (W)" only for an Ographic BodyCrs with
\* rotation Direct, an identifier below 90000 and a name outside
\* {SUN, EARTH, MOON}.
C13_WestingExactlyWhenWest ==
    (ret.op = "ProjectionBody.wkt" /\ ret.status = "ok") =>
        LET d == BodyOf(ret.self).direction
            a == crs[ret.self[1]].args
            label == Field(ret.val, "direction_name")
        IN  /\ label = (IF d = West THEN {"Westing (W)"} ELSE {"Easting (E)"})
            /\ Field(ret.val, "direction") = {IF d = None THEN "None" ELSE d.s}
            /\ label = {"Westing (W)"}
                   => /\ a.crs_type = OGRAPHIC
                      /\ a.rotation = "Direct"
                      /\ a.naif < 90000
                      /\ Text(Upper(a.name)) \notin {"SUN", "EARTH", "MOON"}

\* C13 witness: Mars as Triaxial/Ographic (Direct) rendered with
\* AXIS["Westing (W)", west.
C13_Witness ==
    /\ ret.op = "ProjectionBody.wkt"
    /\ ret.status = "ok"
    /\ crs[ret.self[1]].args.name = Mars
    /\ crs[ret.self[1]].args.crs_type = OGRAPHIC
    /\ Field(ret.val, "direction_name") = {"Westing (W)"}
    /\ Field(ret.val, "direction") = {"west"}

\* C14: as the diagram of the positive longitude rules states, a body whose
\* IAU code is 9000 or more gets east as positive longitude direction,
\* whatever its frame type and rotation.
C14_EastFromCode9000 ==
    (ret.op = "_create_direction" /\ ret.args.number_body >= 9000)
        => ret.val = East

\* The BodyCrs as its constructor built it from the arguments a.
Constructed(a) ==
    BodyCrs_init(MakeDatum(a.name, a.shape,
                           (CHOOSE row \in ProjRows : row.Body = a.name).warning),
                 a.naif, a.rotation, a.crs_type).self

\* The ProjectionBody under key k as create built it.
Created(k) ==
    LET rec == CHOOSE r \in Range(PROJECTION_DATA_0) \cup DriftRecords :
                   Key(k[1], r) = k
    IN  ProjectionBody_create(k[1], Constructed(crs[k[1]].args), rec).self

\* Every object and both tables are as they were at construction, and the
\* outcome of a wkt() is the outcome on the object as constructed.
AsConstructed ==
    /\ PROJECTION_DATA = PROJECTION_DATA_0
    /\ METHOD_AND_PARAM_MAPPING = METHOD_AND_PARAM_MAPPING_0
    /\ \A i \in DOMAIN crs : crs[i].self = Constructed(crs[i].args)
    /\ \A k \in DOMAIN projs : projs[k] = Created(k)
    /\ ret.op = "BodyCrs.wkt"
           => LET r == BodyCrs_wkt(Constructed(crs[ret.self].args))
              IN  ret.status = r.status /\ ret.val = r.val
    /\ ret.op = "ProjectionBody.wkt"
           => LET r == ProjectionBody_wkt(
                           [Created(ret.self) EXCEPT
                                !.body_crs = Constructed(crs[ret.self[1]].args)],
                           METHOD_AND_PARAM_MAPPING_0)
              IN  ret.status = r.status /\ ret.val = r.val

\* No call changes an object or a table, and a wkt() repeated on the same
\* object has the same outcome.
FrameStep ==
    /\ PROJECTION_DATA' = PROJECTION_DATA
    /\ METHOD_AND_PARAM_MAPPING' = METHOD_AND_PARAM_MAPPING
    /\ \A i \in DOMAIN crs : i \in DOMAIN crs' /\ crs'[i] = crs[i]
    /\ \A k \in DOMAIN projs : k \in DOMAIN projs' /\ projs'[k] = projs[k]
    /\ (ret.op \in {"BodyCrs.wkt", "ProjectionBody.wkt", "BodyCrs.iau_code",
                     "ProjectionBody.iau_code"}
            /\ ret'.op = ret.op /\ ret'.self = ret.self)
           => ret' = ret

\* C15: after any sequence of wkt(), iau_code and iter_projection calls,
\* failing ones included, every object's frame type, direction, code,
\* template and record, and both constant tables, are as at construction; a
\* wkt() repeated on an object returns the same text or fails again.
C15_NothingChangesAfterConstruction == []AsConstructed /\ [][FrameStep]_vars

\* C15 witness: after the iteration has yielded records and the wkt() of a
\* projection with an unmapped name has failed, a repeated wkt() of a catalog
\* record of the same BodyCrs succeeds, with both tables as loaded.
C15_Witness ==
    /\ gens # <<>>
    /\ Len(gens[1].out) >= 2
    /\ ret.op = "ProjectionBody.wkt"
    /\ ret.status = "ok"
    /\ \E k \in DOMAIN projs : Unmapped(projs[k].projection)
    /\ METHOD_AND_PARAM_MAPPING = METHOD_AND_PARAM_MAPPING_0
    /\ PROJECTION_DATA = PROJECTION_DATA_0

\* C16: for the same row and shape, Planetocentric and Planetographic build
\* their BodyCrs from the same body, datum, registry identifier and rotation
\* and differ only in the frame type: Ocentric for a Planetocentric, Ographic
\* for a Planetographic, and the crs_type of the factory is the frame type of
\* the BodyCrs it holds.
C16_FactoriesDifferInFrameOnly ==
    /\ \A i \in DOMAIN crs :
           LET f == crs[i].factory
               b == crs[i].self
           IN  /\ f.class = "Planetocentric" => b.crs_type = OCENTRIC
               /\ f.class = "Planetographic" => b.crs_type = OGRAPHIC
               /\ crs_type_of(f) = b.crs_type
               /\ crs[i].args.crs_type = b.crs_type
               /\ crs[i].args.naif = f.row.Naif_id
               /\ crs[i].args.rotation = f.row.rotation
               /\ b.name = f.row.Body
               /\ b.datum.body.shape = f.ref_shape
    /\ \A i, j \in DOMAIN crs :
           (crs[i].factory.row = crs[j].factory.row
                /\ crs[i].factory.ref_shape = crs[j].factory.ref_shape)
               => /\ crs[i].self.datum = crs[j].self.datum
                  /\ crs[i].self.name = crs[j].self.name
                  /\ [crs[i].args EXCEPT !.crs_type = ""]
                         = [crs[j].args EXCEPT !.crs_type = ""]
                  /\ crs[i].factory.class # crs[j].factory.class
                         => crs[i].self.crs_type # crs[j].self.crs_type

\* C16 witness: a Planetocentric and a Planetographic of the Mars row as
\* Ellipse: same datum, frame types Ocentric and Ographic, east and west.
C16_Witness ==
    /\ Len(crs) = 2
    /\ crs[1].factory.class = "Planetocentric"
    /\ crs[2].factory.class = "Planetographic"
    /\ crs[1].factory.row = crs[2].factory.row
    /\ crs[1].factory.row.Body = Mars
    /\ crs[1].factory.ref_shape = ELLIPSE /\ crs[2].factory.ref_shape = ELLIPSE
    /\ crs[1].self.datum = crs[2].self.datum
    /\ crs[1].self.crs_type = OCENTRIC /\ crs[2].self.crs_type = OGRAPHIC
    /\ crs[1].self.direction = East /\ crs[2].self.direction = West

\* C17: the catalog and the mapping table agree: each of the 17 records has
\* a method with an entry, every present parameter name has an entry of
\* three fields (with its unit clause), and the present slots are whole
\* (name, value) pairs; so Conversion.wkt() succeeds for every catalog
\* record.
C17_CatalogAndMappingInSync ==
    /\ Len(PROJECTION_DATA) = 17
    /\ \A rec \in Range(PROJECTION_DATA) :
           /\ Len(rec) = 15
           /\ HasKey(METHOD_AND_PARAM_MAPPING, rec[3])
           /\ Len(METHOD_AND_PARAM_MAPPING[rec[3].s]) >= 2
           /\ \A k \in 1..6 :
                  /\ rec[2 * k + 2] = None <=> rec[2 * k + 3] = None
                  /\ rec[2 * k + 2] # None
                         => /\ HasKey(METHOD_AND_PARAM_MAPPING, rec[2 * k + 2])
                            /\ Len(METHOD_AND_PARAM_MAPPING[rec[2 * k + 2].s]) = 3
    /\ (ret.op = "ProjectionBody.wkt"
            /\ projs[ret.self].projection \in Range(PROJECTION_DATA))
           => ret.status = "ok" /\ ret.val # <<>>

\* C17 witness: the Lambert Conic Conformal record (offset 75), whose six
\* slot pairs are all present, rendered with six PARAMETER clauses.
C17_Witness ==
    /\ ret.op = "ProjectionBody.wkt"
    /\ ret.status = "ok"
    /\ ret.self[2] = 75
    /\ projs[ret.self].projection = PROJECTION_DATA[14]
    /\ \A s \in 4..15 : PROJECTION_DATA[14][s] # None
    /\ Len(Clauses(ret.val)) = 6

\* A code derived from the BodyCrs crs[i]: its own (k = 0), or that of its
\* projection by the k-th catalog record.
CodeOf(i, k) ==
    IF k = 0 THEN BodyCrs_iau_code(crs[i].self)
    ELSE ProjectionBody_iau_code([body_crs |-> crs[i].self,
                                  projection |-> PROJECTION_DATA[k]])

\* What a derived code stands for: identifier, shape, frame type and record.
CodeKey(i, k) ==
    <<crs[i].args.naif, crs[i].args.shape, crs[i].args.crs_type, k>>

\* C18: the codes derived from a registry identifier n, the geographic codes
\* of the valid (shape, frame type) pairs and the projected codes of each
\* pair with each catalog record, lie in n*100 .. n*100+99 and are pairwise
\* distinct; no projected code is a geographic code or a code of another
\* identifier.
C18_DerivedCodesDistinctInRange ==
    LET slots == (DOMAIN crs) \X (0..Len(PROJECTION_DATA))
    IN  /\ \A c \in slots :
               /\ CodeOf(c[1], c[2]) >= crs[c[1]].args.naif * 100
               /\ CodeOf(c[1], c[2]) <= crs[c[1]].args.naif * 100 + 99
        /\ Cardinality({CodeOf(c[1], c[2]) : c \in slots})
               = Cardinality({CodeKey(c[1], c[2]) : c \in slots})
        /\ \A i, j \in DOMAIN crs :
               \A k \in 1..Len(PROJECTION_DATA) : CodeOf(i, k) # CodeOf(j, 0)

\* C18 witness: Mars as Sphere/Ocentric and as Triaxial/Ocentric: 49900 with
\* projected codes 49910 .. 49990, beside 49904 with 49914 .. 49994.
C18_Witness ==
    /\ Len(crs) = 2
    /\ crs[1].args.naif = 499 /\ crs[2].args.naif = 499
    /\ crs[1].args.shape = SPHERE /\ crs[2].args.shape = TRIAXIAL
    /\ crs[1].args.crs_type = OCENTRIC /\ crs[2].args.crs_type = OCENTRIC
    /\ CodeOf(1, 0) = 49900 /\ CodeOf(1, 1) = 49910 /\ CodeOf(1, 17) = 49990
    /\ CodeOf(2, 0) = 49904 /\ CodeOf(2, 1) = 49914 /\ CodeOf(2, 17) = 49994

\* The direction token of the longitude axis of a rendered geographic CRS.
LonToken(t) == t[8].text

\* C19: whenever BodyCrs.wkt() succeeds, the direction token of the
\* longitude axis is the resolved direction of the BodyCrs; an Ocentric
\* BodyCrs always resolves to east, so the east written in the sphere and
\* ocentric templates agrees with it, and its wkt() never fails for lack of a
\* direction.
C19_LongitudeTokenIsDirection ==
    /\ \A i \in DOMAIN crs :
           crs[i].args.crs_type = OCENTRIC => crs[i].self.direction = East
    /\ (ret.op = "BodyCrs.wkt" /\ ret.status = "ok")
           => /\ crs[ret.self].self.direction # None
              /\ LonToken(ret.val) = crs[ret.self].self.direction.s
              /\ ret.val[8].key
                     = (IF crs[ret.self].self.template = BodyCrs_TEMPLATE_OGRAPHIC
                        THEN "direction" ELSE "")
    /\ (ret.op = "BodyCrs.wkt" /\ crs[ret.self].args.crs_type = OCENTRIC)
           => ret.status = "ok" /\ LonToken(ret.val) = "east"

\* C19 witness: Io, of unknown rotation, as Ellipse/Ocentric resolves to east
\* and renders with the east of the ocentric template.
C19_Witness ==
    /\ ret.op = "BodyCrs.wkt"
    /\ ret.status = "ok"
    /\ crs[ret.self].args.naif = 501
    /\ crs[ret.self].args.rotation = "Unknown"
    /\ crs[ret.self].args.crs_type = OCENTRIC
    /\ crs[ret.self].args.shape = ELLIPSE
    /\ crs[ret.self].self.direction = East
    /\ ret.val[8].key = ""
    /\ LonToken(ret.val) = "east"

=============================================================================
